---- MODULE Spec2Model ----
(***************************************************************************)
(* Model of the molecular-dynamics progress monitor (MDS/PL):              *)
(*   MD_progress-report_english_v2.py / MD_progress-report_spanish_v2.py   *)
(*   (identical control flow, translated messages) and the sequential      *)
(*   MD_local_progress_report.py.                                          *)
(*                                                                         *)
(* The scheduler loop of main(), the trigger mailbox read by               *)
(* check_email_for_request, and one pipeline run (job) with its worker     *)
(* pool are modelled as a state machine.  Time is counted in ticks of the  *)
(* loop's 60 s sleep.                                                      *)
(***************************************************************************)
EXTENDS Integers, Sequences, FiniteSets, TLC

\* ------------------------------------------------------------------ bounds
MaxTime == 5          \* the clock stops here (ticks)
IntervalTicks == 2    \* --interval_hours, scaled to ticks
MaxRequests == 2      \* request mails that may ever arrive
MaxUnits == 2         \* directory entries in the pipeline specification
PoolSize == 2         \* worker threads of the ThreadPoolExecutor
MaxFiles == 3         \* entries of a unit's tree in the size specification
MaxEntries == 3       \* entries of input_dir in the locating specification

\* ------------------------------------------------------- program constants
BytesPerMB == 1048576 \* 1024 ** 2
W_EM == 1             \* stage weights, in twelfths
W_NVT == 1
W_NPT == 1
W_MD == 9
WeightDen == 12

VARIABLES
    pc,         \* position of main()'s while-loop
    now,        \* wall clock, in ticks
    next_run,   \* schedule: the periodic job's next_run
    inbox,      \* trigger mailbox: request -> "none" | "unseen" | "seen"
    listing,    \* input_dir.iterdir(): the directory entries, in listing order
    running,    \* number of job() activations that have not returned
    jpc,        \* position inside the active job()
    tasks,      \* executor: per submitted unit "queued" | "running" | "done"
    slots,      \* executor: result of each finished task, by submit index
    arrival,    \* submit indices in the order the tasks completed
    agg,        \* the run's aggregate (lists, counts, percentages, orders)
    out,        \* output_dir: the report file and the plots
    tick,       \* history of the current loop iteration
    run,        \* history of the current / last job() activation
    reqh        \* history of each request mail

vars == <<pc, now, next_run, inbox, listing, running, jpc, tasks, slots,
          arrival, agg, out, tick, run, reqh>>

Requests == 1..MaxRequests
StageSet == {"EM", "NVT", "NPT", "MD"}
None == [none |-> TRUE]

\* ------------------------------------------------------------ file system
Suffix == <<"_", "M", "D", "S">>
Stems == <<"A", "B", "C", "D">>
LogStates == {"missing", "marker"}

\* str.endswith
EndsWith(s, suf) ==
    /\ Len(s) >= Len(suf)
    /\ SubSeq(s, Len(s) - Len(suf) + 1, Len(s)) = suf

\* A directory of input_dir named <stem>_MDS with its four logs and its files.
UnitDir(i, logs, files) ==
    [name |-> <<Stems[i]>> \o Suffix, is_dir |-> TRUE, logs |-> logs, files |-> files]

\* A regular file of input_dir whose name also ends in _MDS.
PlainFile(i) ==
    [name |-> <<Stems[i]>> \o Suffix, is_dir |-> FALSE,
     logs |-> [s \in StageSet |-> "missing"], files |-> <<>>]

\* Variant: the entries selected by name alone.
get_protein_folders_by_name(entries) ==
    SelectSeq(entries, LAMBDA folder : EndsWith(folder.name, Suffix))

\* get_protein_folders: the entries that are directories named *_MDS, in
\* listing order.
get_protein_folders(entries) ==
    SelectSeq(entries, LAMBDA folder : folder.is_dir /\ EndsWith(folder.name, Suffix))

\* The states of one log file beyond LogStates: present and empty, present
\* without the marker, present but failing to open or decode ("unreadable"),
\* and not reachable by stat() ("noaccess": no search permission on the unit).
FaultyLogStates == {"empty", "nomarker", "unreadable", "noaccess"}

\* log_file.exists() when it returns: stat() failing counts as absent.
log_file_exists(log) == log \notin {"missing", "noaccess"}

\* log_file.exists() stands outside the try of is_step_completed; pathlib
\* re-raises the OSError of stat() unless its errno is ENOENT, ENOTDIR, EBADF
\* or ELOOP, so a PermissionError leaves is_step_completed.
exists_raises(log) == log = "noaccess"

\* is_step_completed on the state of one log file: "marker" is a readable
\* file holding "Finished mdrun on rank 0"; a failure of open() or read() is
\* caught and gives False.
is_step_completed(log) ==
    IF log_file_exists(log)
    THEN (IF log = "unreadable" THEN FALSE
          ELSE IF log = "marker" THEN TRUE ELSE FALSE)
    ELSE FALSE

\* get_folder_size: the loop adds st_size file by file inside one try; an
\* exception ends the loop and the sum so far is returned, in MB.
RECURSIVE SumFiles(_, _)
SumFiles(files, total_size) ==
    IF files = <<>> THEN total_size
    ELSE IF Head(files).err THEN total_size
    ELSE SumFiles(Tail(files), total_size + Head(files).bytes)

get_folder_size(folder) ==
    [num |-> SumFiles(folder.files, 0), den |-> BytesPerMB]

\* Variant: MD counted only on top of a completed NPT (stages gated on each
\* other, as in "elif" chains).
ProgressGated(em_done, nvt_done, npt_done, md_done) ==
    (IF em_done THEN W_EM ELSE 0) + (IF nvt_done THEN W_NVT ELSE 0)
    + (IF npt_done THEN W_NPT + (IF md_done THEN W_MD ELSE 0) ELSE 0)

\* The weighted sum of process_folder, in twelfths.
ProgressTwelfths(em_done, nvt_done, npt_done, md_done) ==
    (IF em_done THEN W_EM ELSE 0) + (IF nvt_done THEN W_NVT ELSE 0)
    + (IF npt_done THEN W_NPT ELSE 0) + (IF md_done THEN W_MD ELSE 0)

\* process_folder: the result tuple of one unit.
process_folder(folder) ==
    LET em_done == is_step_completed(folder.logs["EM"])
        nvt_done == is_step_completed(folder.logs["NVT"])
        npt_done == is_step_completed(folder.logs["NPT"])
        md_done == is_step_completed(folder.logs["MD"])
    IN [name |-> folder.name,
        em_done |-> em_done, nvt_done |-> nvt_done,
        npt_done |-> npt_done, md_done |-> md_done,
        progress |-> [num |-> ProgressTwelfths(em_done, nvt_done, npt_done, md_done) * 100,
                      den |-> WeightDen],
        folder_size |-> get_folder_size(folder)]

\* The future of a task whose process_folder raised.
Raised == [raised |-> TRUE]

\* What a worker leaves in the future of a unit: the result tuple, or the
\* exception of an existence check that faulted (whether exists() raises or
\* answers False on such a fault depends on the pathlib of the interpreter).
TaskOutcomes(folder) ==
    {process_folder(folder)}
    \cup (IF \E s \in StageSet : exists_raises(folder.logs[s]) THEN {Raised} ELSE {})

\* ------------------------------------------------------------ aggregation
\* Rationals [num, den], den > 0, stand for the floats of the program.
Less(a, b) ==
    IF a.den = b.den THEN a.num < b.num
    ELSE a.num * b.den < b.num * a.den

\* dict[key] = val on an insertion-ordered dict (a sequence of items).
RECURSIVE DictSet(_, _, _)
DictSet(d, key, val) ==
    IF d = <<>> THEN <<[key |-> key, val |-> val]>>
    ELSE IF Head(d).key = key THEN <<[key |-> key, val |-> val]>> \o Tail(d)
    ELSE <<Head(d)>> \o DictSet(Tail(d), key, val)

\* sorted(d.items(), key=lambda x: x[1]): stable, ascending.
RECURSIVE InsertByVal(_, _)
InsertByVal(s, x) ==
    IF s = <<>> THEN <<x>>
    ELSE IF Less(x.val, Head(s).val) THEN <<x>> \o s
    ELSE <<Head(s)>> \o InsertByVal(Tail(s), x)

RECURSIVE SortedByVal(_)
SortedByVal(d) ==
    IF d = <<>> THEN <<>>
    ELSE InsertByVal(SortedByVal(SubSeq(d, 1, Len(d) - 1)), d[Len(d)])

EmptyLists ==
    [em_completed |-> <<>>, nvt_completed |-> <<>>, npt_completed |-> <<>>,
     md_completed |-> <<>>, protein_progress |-> <<>>, folder_sizes |-> <<>>]

\* One iteration of "for result in results".
AddResult(acc, result) ==
    [em_completed |-> IF result.em_done THEN Append(acc.em_completed, result.name)
                      ELSE acc.em_completed,
     nvt_completed |-> IF result.nvt_done THEN Append(acc.nvt_completed, result.name)
                       ELSE acc.nvt_completed,
     npt_completed |-> IF result.npt_done THEN Append(acc.npt_completed, result.name)
                       ELSE acc.npt_completed,
     md_completed |-> IF result.md_done THEN Append(acc.md_completed, result.name)
                      ELSE acc.md_completed,
     protein_progress |-> DictSet(acc.protein_progress, result.name, result.progress),
     folder_sizes |-> DictSet(acc.folder_sizes, result.name, result.folder_size)]

RECURSIVE ProcessResults(_, _)
ProcessResults(results, acc) ==
    IF results = <<>> THEN acc
    ELSE ProcessResults(Tail(results), AddResult(acc, Head(results)))

\* Variant: the share taken of the directory entries plus one (an
\* off-by-one denominator).
PercentageOffByOne(completed, total_proteins) ==
    [num |-> Len(completed) * 100, den |-> total_proteins + 1]

\* (len(completed) / total_proteins) * 100
Percentage(completed, total_proteins) ==
    [num |-> Len(completed) * 100, den |-> total_proteins]

\* Lines 130-158 and the two sorted() calls of the plots: the aggregate of a
\* run from the collected results (total_proteins > 0).
Aggregate(results, total_proteins) ==
    LET acc == ProcessResults(results, EmptyLists)
    IN [total_proteins |-> total_proteins,
        em_completed |-> acc.em_completed,
        nvt_completed |-> acc.nvt_completed,
        npt_completed |-> acc.npt_completed,
        md_completed |-> acc.md_completed,
        protein_progress |-> acc.protein_progress,
        folder_sizes |-> acc.folder_sizes,
        percentages |-> <<Percentage(acc.em_completed, total_proteins),
                          Percentage(acc.nvt_completed, total_proteins),
                          Percentage(acc.npt_completed, total_proteins),
                          Percentage(acc.md_completed, total_proteins)>>,
        sorted_proteins |-> SortedByVal(acc.protein_progress),
        sorted_sizes |-> SortedByVal(acc.folder_sizes)]


Range(f) == {f[k] : k \in DOMAIN f}

\* ---------------------------------------------------------- trigger source
\* The UNSEEN messages with the subject, in mailbox order.
RECURSIVE UnseenFrom(_, _)
UnseenFrom(box, r) ==
    IF r > MaxRequests THEN <<>>
    ELSE (IF box[r] = "unseen" THEN <<r>> ELSE <<>>) \o UnseenFrom(box, r + 1)

search(box) == UnseenFrom(box, 1)

\* Variant: the found mails are left unread.
store_nothing(box, mail_id) == box

\* mail.store(mail_id, '+FLAGS', '\\Seen')
store(box, mail_id) == [box EXCEPT ![mail_id] = "seen"]

\* "for mail_id in mail_ids: mail.store(...)"; the failAt-th store raises
\* (failAt > Len(mail_ids): none does).
RECURSIVE StoreLoop(_, _, _, _)
StoreLoop(box, mail_ids, k, failAt) ==
    IF k > Len(mail_ids) \/ k = failAt THEN box
    ELSE StoreLoop(store(box, mail_ids[k]), mail_ids, k + 1, failAt)

ImapSteps == {"connect", "login", "select", "search"}

\* Variant: a failing store does not stop the function from reporting the
\* request (the stores wrapped in their own handler).
check_email_ignoring_store_errors(box, fault, failAt) ==
    IF fault \in ImapSteps
    THEN [found |-> FALSE, box |-> box, mail_ids |-> <<>>, fault |-> fault]
    ELSE LET mail_ids == search(box)
         IN IF mail_ids # <<>>
            THEN [found |-> TRUE, box |-> StoreLoop(box, mail_ids, 1, failAt),
                  mail_ids |-> mail_ids,
                  fault |-> IF failAt <= Len(mail_ids) THEN "store" ELSE "none"]
            ELSE [found |-> FALSE, box |-> box, mail_ids |-> <<>>, fault |-> "none"]

\* check_email_for_request, given where the IMAP session fails ("none": it
\* does not fail before the stores) and which store raises.
check_email_for_request(box, fault, failAt) ==
    IF fault \in ImapSteps
    THEN [found |-> FALSE, box |-> box, mail_ids |-> <<>>, fault |-> fault]
    ELSE LET mail_ids == search(box)
         IN IF mail_ids # <<>>
            THEN IF failAt <= Len(mail_ids)
                 THEN [found |-> FALSE, box |-> StoreLoop(box, mail_ids, 1, failAt),
                       mail_ids |-> mail_ids, fault |-> "store"]
                 ELSE [found |-> TRUE, box |-> StoreLoop(box, mail_ids, 1, failAt),
                       mail_ids |-> mail_ids, fault |-> "none"]
            ELSE [found |-> FALSE, box |-> box, mail_ids |-> <<>>, fault |-> "none"]

\* ------------------------------------------------- sequential processing
\* MD_local_progress_report.py, lines 64-91: one pass over the folders in
\* list order, each folder inspected and appended before the next.
RECURSIVE SequentialLoop(_, _)
SequentialLoop(protein_folders, acc) ==
    IF protein_folders = <<>> THEN acc
    ELSE LET folder == Head(protein_folders)
             em_done == is_step_completed(folder.logs["EM"])
             nvt_done == is_step_completed(folder.logs["NVT"])
             npt_done == is_step_completed(folder.logs["NPT"])
             md_done == is_step_completed(folder.logs["MD"])
             progress == ProgressTwelfths(em_done, nvt_done, npt_done, md_done)
             next ==
               [em_completed |-> acc.em_completed
                                   \o (IF em_done THEN <<folder.name>> ELSE <<>>),
                nvt_completed |-> acc.nvt_completed
                                    \o (IF nvt_done THEN <<folder.name>> ELSE <<>>),
                npt_completed |-> acc.npt_completed
                                    \o (IF npt_done THEN <<folder.name>> ELSE <<>>),
                md_completed |-> acc.md_completed
                                   \o (IF md_done THEN <<folder.name>> ELSE <<>>),
                protein_progress |->
                    DictSet(acc.protein_progress, folder.name,
                            [num |-> progress * 100, den |-> WeightDen]),
                folder_sizes |->
                    DictSet(acc.folder_sizes, folder.name, get_folder_size(folder))]
         IN SequentialLoop(Tail(protein_folders), next)

\* Lines 94-97 of the sequential script: the percentage is 0 without units.
SequentialPercentage(completed, total_proteins) ==
    IF total_proteins > 0
    THEN [num |-> Len(completed) * 100, den |-> total_proteins]
    ELSE [num |-> 0, den |-> 1]

\* The aggregate of the sequential script for a directory listing, with the
\* presentation orders of the plots.
SequentialAggregate(entries) ==
    LET protein_folders == get_protein_folders(entries)
        total_proteins == Len(protein_folders)
        acc == SequentialLoop(protein_folders, EmptyLists)
    IN [total_proteins |-> total_proteins,
        em_completed |-> acc.em_completed,
        nvt_completed |-> acc.nvt_completed,
        npt_completed |-> acc.npt_completed,
        md_completed |-> acc.md_completed,
        protein_progress |-> acc.protein_progress,
        folder_sizes |-> acc.folder_sizes,
        percentages |-> <<SequentialPercentage(acc.em_completed, total_proteins),
                          SequentialPercentage(acc.nvt_completed, total_proteins),
                          SequentialPercentage(acc.npt_completed, total_proteins),
                          SequentialPercentage(acc.md_completed, total_proteins)>>,
        sorted_proteins |-> SortedByVal(acc.protein_progress),
        sorted_sizes |-> SortedByVal(acc.folder_sizes)]

\* ------------------------------------------------------------------ state
NoTick ==
    [trig |-> FALSE, ids |-> {}, fault |-> "none", pending |-> FALSE, due |-> FALSE,
     runs |-> 0]

NoRun ==
    [kind |-> "none", units |-> -1, plotted |-> FALSE, wrote |-> FALSE,
     sent |-> FALSE, email_ok |-> FALSE, email_fault |-> "none", failed |-> "none"]

\* in_run: the mail arrived while a run was active; delivered: checks that
\* returned True with the mail among mail_ids; runs: runs started for it.
NoRequest == [in_run |-> FALSE, delivered |-> 0, runs |-> 0]

AllLogs(st) == [s \in StageSet |-> st]
OneFile == <<[bytes |-> BytesPerMB, err |-> FALSE]>>

\* Input directories of the loop specification: no qualifying entry (a
\* regular file named *_MDS), and two units.
LoopDirs ==
    { <<PlainFile(1)>>,
      <<UnitDir(1, [AllLogs("marker") EXCEPT !["MD"] = "missing"], OneFile),
        UnitDir(2, AllLogs("marker"), <<>>)>> }

\* The state when main() enters its while-loop: schedule.every(..).do(job)
\* has set next_run one interval ahead.
Init ==
    /\ pc = "check"
    /\ now = 0
    /\ next_run = IntervalTicks
    /\ inbox = [r \in Requests |-> "none"]
    /\ listing \in LoopDirs
    /\ running = 0
    /\ jpc = "idle"
    /\ tasks = <<>>
    /\ slots = <<>>
    /\ arrival = <<>>
    /\ agg = None
    /\ out = [report |-> None, plots |-> None]
    /\ tick = NoTick
    /\ run = NoRun
    /\ reqh = [r \in Requests |-> NoRequest]

\* ----------------------------------------------------- environment actions
\* A request mail with the subject arrives in the inbox.
Arrive(r) ==
    /\ inbox[r] = "none"
    /\ \A q \in Requests : q < r => inbox[q] # "none"
    /\ inbox' = [inbox EXCEPT ![r] = "unseen"]
    /\ reqh' = [reqh EXCEPT ![r].in_run = (running > 0)]
    /\ UNCHANGED <<pc, now, next_run, listing, running, jpc, tasks, slots,
                   arrival, agg, out, tick, run>>

\* ------------------------------------------------------------- main loop
\* Variant: job() handed to a background thread, the loop going straight on.
CallJobInThread(kind) == IF kind = "trigger" THEN "run_pending" ELSE "sleep"

\* Where main() is while job() executes: the call is synchronous.
CallJob(kind) == IF kind = "trigger" THEN "job_trig" ELSE "job_sched"

\* Entering job(): a new activation with fresh locals.
StartJob(kind) ==
    /\ pc' = CallJob(kind)
    /\ running' = running + 1
    /\ jpc' = "locate"
    /\ tasks' = <<>>
    /\ slots' = <<>>
    /\ arrival' = <<>>
    /\ agg' = None
    /\ run' = [NoRun EXCEPT !.kind = kind]

\* Line 345: one call of check_email_for_request at the top of an iteration.
CheckEmail ==
    /\ pc = "check"
    /\ \E fault \in ImapSteps \cup {"none"}, failAt \in 1..(MaxRequests + 1) :
         LET res == check_email_for_request(inbox, fault, failAt)
         IN /\ (fault # "none" => failAt = 1)
            /\ failAt <= Len(res.mail_ids) + 1
            /\ inbox' = res.box
            /\ tick' = [NoTick EXCEPT !.trig = res.found, !.fault = res.fault,
                                      !.ids = IF res.found THEN Range(res.mail_ids) ELSE {}]
            /\ reqh' = [r \in Requests |->
                          IF res.found /\ r \in Range(res.mail_ids)
                          THEN [reqh[r] EXCEPT !.delivered = @ + 1]
                          ELSE reqh[r]]
            /\ pc' = IF res.found THEN "call_job" ELSE "run_pending"
    /\ UNCHANGED <<now, next_run, listing, running, jpc, tasks, slots, arrival,
                   agg, out, run>>

\* Line 347: job() for the request.
TriggeredJob ==
    /\ pc = "call_job"
    /\ StartJob("trigger")
    /\ tick' = [tick EXCEPT !.runs = @ + 1]
    /\ reqh' = [r \in Requests |->
                  IF r \in tick.ids THEN [reqh[r] EXCEPT !.runs = @ + 1] ELSE reqh[r]]
    /\ UNCHANGED <<now, next_run, inbox, listing, out>>

\* Job.should_run of the schedule library.
should_run(t, next) == t >= next

\* Variant: the due job is skipped when the tick has already run job().
RunPendingOncePerTick ==
    /\ pc = "run_pending"
    /\ IF should_run(now, next_run) /\ tick.runs = 0
       THEN /\ StartJob("schedule")
            /\ tick' = [tick EXCEPT !.pending = TRUE, !.due = TRUE, !.runs = @ + 1]
       ELSE /\ pc' = "sleep"
            /\ tick' = [tick EXCEPT !.pending = TRUE, !.due = should_run(now, next_run)]
            /\ UNCHANGED <<running, jpc, tasks, slots, arrival, agg, run>>
    /\ UNCHANGED <<now, next_run, inbox, listing, out, reqh>>

\* Line 348: schedule.run_pending() runs the periodic job when it is due.
RunPending ==
    /\ pc = "run_pending"
    /\ IF should_run(now, next_run)
       THEN /\ StartJob("schedule")
            /\ tick' = [tick EXCEPT !.pending = TRUE, !.due = TRUE, !.runs = @ + 1]
       ELSE /\ pc' = "sleep"
            /\ tick' = [tick EXCEPT !.pending = TRUE]
            /\ UNCHANGED <<running, jpc, tasks, slots, arrival, agg, run>>
    /\ UNCHANGED <<now, next_run, inbox, listing, out, reqh>>

\* Where main() continues when job() returns.
ReturnTo(p) ==
    CASE p = "job_trig" -> "run_pending"
      [] p = "job_sched" -> "sleep"
      [] OTHER -> p

\* Variant: every return of job() reschedules the periodic job.
JobReturnReschedulesAlways ==
    /\ jpc = "return"
    /\ running' = running - 1
    /\ jpc' = "idle"
    /\ pc' = ReturnTo(pc)
    /\ next_run' = now + IntervalTicks
    /\ UNCHANGED <<now, inbox, listing, tasks, slots, arrival, agg, out, tick, run, reqh>>

\* job() returns; a scheduled job is then rescheduled one interval from now
\* (Job.run: last_run = now, _schedule_next_run).
JobReturn ==
    /\ jpc = "return"
    /\ running' = running - 1
    /\ jpc' = "idle"
    /\ pc' = ReturnTo(pc)
    /\ next_run' = IF run.kind = "schedule" THEN now + IntervalTicks ELSE next_run
    /\ UNCHANGED <<now, inbox, listing, tasks, slots, arrival, agg, out, tick, run, reqh>>

\* An exception leaves job(): nothing in job(), run_pending() or the
\* while-loop catches it and main() ends.
JobRaise ==
    /\ jpc = "raise"
    /\ running' = running - 1
    /\ jpc' = "idle"
    /\ pc' = "terminated"
    /\ UNCHANGED <<now, next_run, inbox, listing, tasks, slots, arrival, agg, out,
                   tick, run, reqh>>

\* Line 349: time.sleep(60).
Sleep ==
    /\ pc = "sleep"
    /\ now < MaxTime
    /\ now' = now + 1
    /\ pc' = "check"
    /\ UNCHANGED <<next_run, inbox, listing, running, jpc, tasks, slots, arrival,
                   agg, out, tick, run, reqh>>


\* -------------------------------------------------------- one pipeline run
\* Wall-clock time passes while the run works.
Elapse ==
    /\ jpc = "locate"
    /\ now < MaxTime
    /\ now' = now + 1
    /\ UNCHANGED <<pc, next_run, inbox, listing, running, jpc, tasks, slots, arrival,
                   agg, out, tick, run, reqh>>

\* Lines 119-128: locate the units; none: warn and return from
\* generate_monitoring_report_and_plots (job() goes on to line 326);
\* otherwise submit one process_folder task per unit, in list order.
Locate ==
    /\ jpc = "locate"
    /\ LET protein_folders == get_protein_folders(listing)
           total_proteins == Len(protein_folders)
       IN /\ run' = [run EXCEPT !.units = total_proteins]
          /\ IF total_proteins = 0
             THEN /\ jpc' = "send"
                  /\ UNCHANGED <<tasks, slots>>
             ELSE /\ jpc' = "map"
                  /\ tasks' = [i \in 1..total_proteins |->
                                 [folder |-> protein_folders[i], st |-> "queued"]]
                  /\ slots' = [i \in 1..total_proteins |-> None]
    /\ UNCHANGED <<pc, now, next_run, inbox, listing, running, arrival, agg, out,
                   tick, reqh>>

\* A step of generate_monitoring_report_and_plots raises (iterdir on a
\* missing input_dir, mkdir/savefig, opening or writing the report): the
\* function has no handler.
RaiseAt(phase) ==
    /\ jpc = phase
    /\ jpc' = "raise"
    /\ run' = [run EXCEPT !.failed = phase]
    /\ UNCHANGED <<pc, now, next_run, inbox, listing, running, tasks, slots, arrival,
                   agg, out, tick, reqh>>

PipelineFault == \E phase \in {"locate", "render", "write"} : RaiseAt(phase)

Busy == {i \in DOMAIN tasks : tasks[i].st = "running"}

\* A free worker thread takes the next queued task.
TaskStart(i) ==
    /\ jpc = "map"
    /\ i \in DOMAIN tasks
    /\ tasks[i].st = "queued"
    /\ \A j \in DOMAIN tasks : j < i => tasks[j].st # "queued"
    /\ Cardinality(Busy) < PoolSize
    /\ tasks' = [tasks EXCEPT ![i].st = "running"]
    /\ UNCHANGED <<pc, now, next_run, inbox, listing, running, jpc, slots, arrival,
                   agg, out, tick, run, reqh>>

\* A worker finishes process_folder; the result is kept in the task's future.
TaskFinish(i) ==
    /\ jpc = "map"
    /\ i \in DOMAIN tasks
    /\ tasks[i].st = "running"
    /\ tasks' = [tasks EXCEPT ![i].st = "done"]
    /\ \E result \in TaskOutcomes(tasks[i].folder) :
         slots' = [slots EXCEPT ![i] = result]
    /\ arrival' = Append(arrival, i)
    /\ UNCHANGED <<pc, now, next_run, inbox, listing, running, jpc, agg, out, tick,
                   run, reqh>>

\* Variant: the results taken as the tasks complete (as_completed).
ResultsAsCompleted(futures, order) == [k \in 1..Len(order) |-> futures[order[k]]]

\* list(executor.map(...)): the results in the order of the submitted units.
Results(futures, order) == [k \in 1..Len(futures) |-> futures[k]]

\* executor.map yields each future's result in turn and the with-block
\* joins the pool: the list is complete when every task is done.
AllDone(ts) == \A i \in DOMAIN ts : ts[i].st = "done"

\* Variant: aggregation starts on the results at hand as soon as one task
\* has finished.
CollectFirstCompleted ==
    /\ jpc = "map"
    /\ arrival # <<>>
    /\ IF \E i \in DOMAIN slots : slots[i] = Raised
       THEN /\ jpc' = "raise"
            /\ run' = [run EXCEPT !.failed = "map"]
            /\ agg' = agg
       ELSE /\ agg' = Aggregate(ResultsAsCompleted(slots, arrival), run.units)
            /\ jpc' = "render"
            /\ run' = run
    /\ UNCHANGED <<pc, now, next_run, inbox, listing, running, tasks, slots, arrival,
                   out, tick, reqh>>

\* Lines 128-158: collect the results and aggregate them; a future holding
\* an exception re-raises it out of list(executor.map(...)).
Collect ==
    /\ jpc = "map"
    /\ AllDone(tasks)
    /\ IF \E i \in DOMAIN slots : slots[i] = Raised
       THEN /\ jpc' = "raise"
            /\ run' = [run EXCEPT !.failed = "map"]
            /\ agg' = agg
       ELSE /\ agg' = Aggregate(Results(slots, arrival), run.units)
            /\ jpc' = "render"
            /\ run' = run
    /\ UNCHANGED <<pc, now, next_run, inbox, listing, running, tasks, slots, arrival,
                   out, tick, reqh>>

\* The three series handed to matplotlib.
PlotSeries(a) ==
    [global |-> a.percentages, progress |-> a.sorted_proteins, storage |-> a.sorted_sizes]

\* Lines 160-200: mkdir and the three plots.
Render ==
    /\ jpc = "render"
    /\ out' = [out EXCEPT !.plots = PlotSeries(agg)]
    /\ run' = [run EXCEPT !.plotted = TRUE]
    /\ jpc' = "write"
    /\ UNCHANGED <<pc, now, next_run, inbox, listing, running, tasks, slots, arrival,
                   agg, tick, reqh>>

\* Lines 203-215: the text of the report.
ReportContent(a, report_time) ==
    [report_time |-> report_time,
     total_proteins |-> a.total_proteins,
     counts |-> <<Len(a.em_completed), Len(a.nvt_completed),
                  Len(a.npt_completed), Len(a.md_completed)>>,
     percentages |-> a.percentages,
     lists |-> <<a.em_completed, a.nvt_completed, a.npt_completed, a.md_completed>>]

\* Lines 217-222: write the report file.
WriteReport ==
    /\ jpc = "write"
    /\ out' = [out EXCEPT !.report = ReportContent(agg, now)]
    /\ run' = [run EXCEPT !.wrote = TRUE]
    /\ jpc' = "send"
    /\ UNCHANGED <<pc, now, next_run, inbox, listing, running, tasks, slots, arrival,
                   agg, tick, reqh>>

\* What can fail in send_email_report: reading one of the attachments,
\* connecting to the SMTP server, logging in, sending the message.
SendFaults == {"none", "attach", "connect", "login", "send"}

\* Variant: no handler around the attachment and SMTP steps.
send_email_report_unguarded(fault) ==
    [ok |-> fault = "none", raised |-> fault # "none"]

\* send_email_report: an attachment that cannot be read is logged and
\* skipped (lines 244-257) and the message is still sent; an error of the
\* SMTP steps is logged (lines 260-267).  Nothing is raised.
send_email_report(fault) ==
    [ok |-> fault \in {"none", "attach"}, raised |-> FALSE]

\* Lines 326-337: job() calls send_email_report whatever
\* generate_monitoring_report_and_plots did; attachment and SMTP errors are
\* caught inside send_email_report.
SendEmail ==
    /\ jpc = "send"
    /\ \E fault \in SendFaults :
         LET res == send_email_report(fault)
         IN /\ run' = [run EXCEPT !.sent = TRUE, !.email_ok = res.ok,
                                  !.email_fault = fault]
            /\ jpc' = IF res.raised THEN "raise" ELSE "return"
    /\ UNCHANGED <<pc, now, next_run, inbox, listing, running, tasks, slots, arrival,
                   agg, out, tick, reqh>>

\* ---------------------------------------------------------- specifications
Pipeline ==
    \/ Locate
    \/ \E i \in DOMAIN tasks : TaskStart(i)
    \/ \E i \in DOMAIN tasks : TaskFinish(i)
    \/ Collect
    \/ Render
    \/ WriteReport
    \/ SendEmail

Next ==
    \/ \E r \in Requests : Arrive(r)
    \/ CheckEmail
    \/ TriggeredJob
    \/ RunPending
    \/ JobReturn
    \/ JobRaise
    \/ Sleep
    \/ Elapse
    \/ PipelineFault
    \/ Pipeline

Spec == Init /\ [][Next]_vars


\* The pipeline on its own: every directory of up to MaxUnits units, each
\* stage log of each unit present with the marker or missing.  Odd units
\* hold one file of 1 MB, even units none, so that the order by size differs
\* from the listing order.
FilesOf(i) == IF i % 2 = 1 THEN OneFile ELSE <<>>

PipeDirs ==
    UNION { { [i \in 1..n |-> UnitDir(i, logs[i], FilesOf(i))] :
                logs \in [1..n -> [StageSet -> LogStates]] } : n \in 0..MaxUnits }

\* A pipeline run is about to start over the directories dirs (a request
\* has just been read).
PipeStart(dirs) ==
    /\ pc = "call_job"
    /\ now = 0
    /\ next_run = IntervalTicks
    /\ inbox = [r \in Requests |-> IF r = 1 THEN "seen" ELSE "none"]
    /\ listing \in dirs
    /\ running = 0
    /\ jpc = "idle"
    /\ tasks = <<>>
    /\ slots = <<>>
    /\ arrival = <<>>
    /\ agg = None
    /\ out = [report |-> None, plots |-> None]
    /\ tick = [NoTick EXCEPT !.trig = TRUE, !.ids = {1}]
    /\ run = NoRun
    /\ reqh = [r \in Requests |->
                 IF r = 1 THEN [NoRequest EXCEPT !.delivered = 1] ELSE NoRequest]

InitPipe == PipeStart(PipeDirs)

NextPipe ==
    \/ TriggeredJob
    \/ Pipeline
    \/ JobReturn

SpecPipe == InitPipe /\ [][NextPipe]_vars

\* ------------------------------------------------------------ properties
LoopPositions == {"check", "call_job", "run_pending", "sleep"}
InJob == {"job_trig", "job_sched"}

C2_RunIffDueOrTriggered ==
    /\ tick.pending => ((tick.runs >= 1) <=> (tick.trig \/ tick.due))
    /\ (run.kind # "none" /\ running = 0) => pc \in LoopPositions

\* C3: at most one job() activation exists, main() is inside that call
\* while it exists, and the loop evaluates a tick only when none exists.
C3_SingleFlow ==
    /\ running <= 1
    /\ running = 1 <=> pc \in InJob
    /\ running = 1 <=> jpc # "idle"
    /\ pc \in {"check", "call_job", "run_pending", "sleep"} => running = 0

\* A scheduled run active in a tick whose triggered run has already returned.
C3_Witness ==
    running = 1 /\ tick.runs = 2 /\ jpc = "map" /\ tasks[1].st = "running"

\* C4 as stated: a run that failed leaves the loop alive.
C4_FailureAbsorbed ==
    run.failed # "none" => pc # "terminated"

\* C5 as stated: a run that located no unit writes no report, renders no
\* plot and does not call send_email_report.
C5_EmptyRunShortCircuits ==
    run.units = 0 => (~run.wrote /\ ~run.plotted /\ ~run.sent)


\* C6: a request is reported by at most one call of
\* check_email_for_request, it is marked seen by that call, and at most one
\* run is started for it, however many requests are pending together.
C6_AtMostOnce ==
    \A r \in Requests :
        /\ reqh[r].delivered <= 1
        /\ reqh[r].runs <= reqh[r].delivered
        /\ reqh[r].delivered = 1 => inbox[r] = "seen"
        /\ (r \in tick.ids /\ pc # "call_job") => reqh[r].runs = 1

\* Two requests were pending together and reported by one call; a later
\* call has answered without reporting them again.
C6_Witness ==
    /\ \A r \in Requests : reqh[r].delivered = 1 /\ reqh[r].runs = 1
    /\ tick.pending /\ ~tick.trig /\ tick.fault = "none"

\* C7 as stated: a request that arrived during a run is not acted on before
\* a check reads it and is never lost: once it is no longer pending, a run
\* has been started for it.
C7_MidRunRequestServed ==
    \A r \in Requests :
        reqh[r].in_run =>
            /\ inbox[r] = "unseen" => reqh[r].runs = 0
            /\ (inbox[r] = "seen" /\ pc # "call_job") => reqh[r].runs = 1

\* C8: after a check that failed at any IMAP step the tick has no trigger:
\* no request is reported, no triggered run is started, the loop is at the
\* schedule check or beyond it, and the tick's only possible run is the
\* scheduled one.
C8_TriggerFaultIsNoTrigger ==
    tick.fault # "none" =>
        /\ ~tick.trig
        /\ tick.ids = {}
        /\ pc \notin {"call_job", "job_trig"}
        /\ run.kind = "trigger" => running = 0
        /\ tick.runs = (IF tick.due THEN 1 ELSE 0)
        /\ pc = "sleep" => tick.pending

\* A store failed after the search found mail; the schedule check still ran
\* its due job and the loop has slept and stands at its next tick.
C8_Witness ==
    tick.fault = "store" /\ tick.due /\ pc = "check" /\ now > 0


\* The run has left generate_monitoring_report_and_plots' aggregation.
Aggregated == jpc \in {"render", "write", "send", "return"} /\ run.units >= 0

ClaimedWeight == [s \in StageSet |-> IF s = "MD" THEN 9 ELSE 1]

RECURSIVE SumWeights(_)
SumWeights(S) ==
    IF S = {} THEN 0
    ELSE LET s == CHOOSE x \in S : TRUE IN ClaimedWeight[s] + SumWeights(S \ {s})

CompletedStages(folder) == {s \in StageSet : folder.logs[s] = "marker"}

\* C10: the progress of every processed unit is 100 times the sum of the
\* weights of its completed stages, each stage counting on its own, and lies
\* in [0, 100]; none = 0, EM+NVT+NPT = 25, MD alone = 75, all four = 100.
C10_ProgressIsWeightedSum ==
    \A i \in DOMAIN slots :
        slots[i] # None =>
            LET p == slots[i].progress
                done == CompletedStages(tasks[i].folder)
            IN /\ p.den > 0
               /\ p.num * 12 = 100 * SumWeights(done) * p.den
               /\ 0 <= p.num /\ p.num <= 100 * p.den
               /\ done = {} => p.num = 0
               /\ done = {"EM", "NVT", "NPT"} => p.num = 25 * p.den
               /\ done = {"MD"} => p.num = 75 * p.den
               /\ done = StageSet => p.num = 100 * p.den

\* A unit with only MD completed has been processed: 75 %.
C10_Witness ==
    \E i \in DOMAIN slots :
        /\ slots[i] # None
        /\ CompletedStages(tasks[i].folder) = {"MD"}
        /\ slots[i].progress.num = 75 * slots[i].progress.den


\* The stages in the order of the percentages and of the report.
StageAt == <<"EM", "NVT", "NPT", "MD">>

\* The located units whose log of stage s holds the marker.
UnitsCompleted(entries, s) ==
    {i \in DOMAIN entries :
        /\ entries[i].is_dir
        /\ EndsWith(entries[i].name, Suffix)
        /\ entries[i].logs[s] = "marker"}

\* C11: in a run with units the percentage of every stage is 100 * count /
\* total_units, count being the number of located units that completed the
\* stage, so 0 <= count <= total and the percentage is in [0, 100]; nothing is
\* ever divided by zero: a run without units computes no percentage, and the
\* sequential script's percentages are then all 0.
C11_PercentIsShareOfTotal ==
    /\ agg # None =>
         /\ run.units > 0
         /\ agg.total_proteins = run.units
         /\ \A k \in 1..4 :
              LET count == Cardinality(UnitsCompleted(listing, StageAt[k]))
                  pct == agg.percentages[k]
              IN /\ pct.den > 0
                 /\ pct.num * run.units = 100 * count * pct.den
                 /\ 0 <= count /\ count <= run.units
                 /\ 0 <= pct.num /\ pct.num <= 100 * pct.den
    /\ run.units = 0 =>
         /\ agg = None
         /\ \A k \in 1..4 :
              /\ SequentialAggregate(listing).percentages[k].num = 0
              /\ SequentialAggregate(listing).percentages[k].den > 0

\* Two units, one of which completed MD: 50 % has been computed.
C11_Witness ==
    /\ agg # None
    /\ run.units = 2
    /\ Cardinality(UnitsCompleted(listing, "MD")) = 1
    /\ agg.percentages[4].num = 50 * agg.percentages[4].den


\* ------------------------------------------------- size traversal on its own
\* What rglob('*') meets in a unit: regular files of 1 or 2 MB, and entries
\* whose stat() raises (removed since is_file(), not permitted, I/O error).
TreeEntries ==
    { [bytes |-> BytesPerMB, err |-> FALSE],
      [bytes |-> 2 * BytesPerMB, err |-> FALSE],
      [bytes |-> BytesPerMB, err |-> TRUE] }

Trees == UNION { [1..n -> TreeEntries] : n \in 0..MaxFiles }

\* One unit, all stages completed, with every tree of up to MaxFiles entries.
SizeDirs == { <<UnitDir(1, AllLogs("marker"), files)>> : files \in Trees }

InitSize == PipeStart(SizeDirs)

SpecSize == InitSize /\ [][NextPipe]_vars

\* The bytes of the entries of a tree that can be read.
RECURSIVE ReadableBytes(_)
ReadableBytes(files) ==
    IF files = <<>> THEN 0
    ELSE (IF Head(files).err THEN 0 ELSE Head(files).bytes) + ReadableBytes(Tail(files))

\* C12 as stated: the size of a processed unit is the sum, in MB, of all the
\* files of its tree that can be read, those after a faulting entry included.
C12_FaultCostsOnlyItsEntry ==
    \A i \in DOMAIN slots :
        slots[i] # None =>
            /\ slots[i].folder_size.den = BytesPerMB
            /\ slots[i].folder_size.num = ReadableBytes(tasks[i].folder.files)


\* ------------------------------------------------- stage checks on their own
\* One unit, each of its four logs in any state, faulty ones included.
StageDirs ==
    { <<UnitDir(1, logs, OneFile)>> : logs \in [StageSet -> LogStates \cup FaultyLogStates] }

InitStage == PipeStart(StageDirs)

NextStage ==
    \/ NextPipe
    \/ JobRaise

SpecStage == InitStage /\ [][NextStage]_vars

\* C13 as stated: a stage counts as completed exactly when its log exists, is
\* readable and holds the marker; a missing or empty log, or one whose
\* existence check or read faults, gives false, and no such fault leaves the
\* stage check to fail the run.
C13_StageCheckNeverFails ==
    /\ \A i \in DOMAIN slots :
         slots[i] # None =>
            /\ slots[i] # Raised
            /\ slots[i].em_done = (tasks[i].folder.logs["EM"] = "marker")
            /\ slots[i].nvt_done = (tasks[i].folder.logs["NVT"] = "marker")
            /\ slots[i].npt_done = (tasks[i].folder.logs["NPT"] = "marker")
            /\ slots[i].md_done = (tasks[i].folder.logs["MD"] = "marker")
    /\ jpc # "raise"
    /\ pc # "terminated"

\* ------------------------------------------------------- two runs in a row
\* The orders in which input_dir.iterdir() may yield the same entries.
Orders(entries) ==
    { [k \in 1..Len(entries) |-> entries[f[k]]] : f \in Permutations(1..Len(entries)) }

\* Between two iterations the directory comes to list the same entries in
\* another order; units and logs stay as they are.
Relist ==
    /\ pc = "sleep"
    /\ \E l \in Orders(listing) : l # listing /\ listing' = l
    /\ UNCHANGED <<pc, now, next_run, inbox, running, jpc, tasks, slots, arrival,
                   agg, out, tick, run, reqh>>

NextTwice ==
    \/ Next
    \/ Relist

SpecTwice == Init /\ [][NextTwice]_vars

\* C14 as stated: over unchanged units and logs, the report a run is about
\* to write equals the report the run before it wrote in everything but the
\* time of its first line: same total, counts, percentages, and the same
\* names in the same order in each per-stage list, whatever order the
\* directory is listed in and the tasks complete in.
C14_ReportRepeats ==
    (jpc = "write" /\ out.report # None) =>
        LET new == ReportContent(agg, now)
        IN /\ new.total_proteins = out.report.total_proteins
           /\ new.counts = out.report.counts
           /\ new.percentages = out.report.percentages
           /\ new.lists = out.report.lists

\* ------------------------------------------------- failure of the notification
\* C15: a failure of the notification (an attachment that cannot be read,
\* failing to connect, log in or send) stays inside send_email_report: the
\* step leaves the report and the plots as they were written and goes on to
\* the return of job(), no exception reaches job(), and the loop is not
\* ended by it.
C15_NotificationFailureAbsorbed ==
    /\ [](run.sent /\ run.email_fault # "none" =>
            /\ jpc \in {"return", "idle"}
            /\ pc # "terminated"
            /\ run.failed = "none"
            /\ run.wrote =>
                 /\ out.report = ReportContent(agg, out.report.report_time)
                 /\ out.plots = PlotSeries(agg))
    /\ [][jpc = "send" => (out' = out /\ agg' = agg /\ jpc' \in {"send", "return"})]_vars

\* A run whose notification could not log in has returned and the loop has
\* reached the check of a later iteration.
C15_Witness ==
    /\ run.sent /\ run.wrote
    /\ run.email_fault = "login"
    /\ ~run.email_ok
    /\ pc = "check"

\* ---------------------------------------------------- locating on its own
\* An entry of input_dir with the given name.
Entry(name, is_dir) ==
    [name |-> name, is_dir |-> is_dir, logs |-> AllLogs("marker"), files |-> <<>>]

\* Children of input_dir: two units, a directory with another suffix, a
\* regular file with the suffix, and a directory whose name is shorter than
\* the suffix.
RootEntries ==
    { UnitDir(1, AllLogs("marker"), <<>>),
      UnitDir(2, AllLogs("marker"), <<>>),
      Entry(<<"F", "o", "o", "_", "M", "D", "X">>, TRUE),
      Entry(<<"B", "a", "r", "_", "M", "D", "S">>, FALSE),
      Entry(<<"M", "D", "S">>, TRUE) }

\* The listings of up to MaxEntries distinct children, in every order.
LocateDirs ==
    UNION { { l \in [1..n -> RootEntries] : \A i, j \in 1..n : l[i] = l[j] => i = j } :
              n \in 0..MaxEntries }

InitLocate == PipeStart(LocateDirs)

SpecLocate == InitLocate /\ [][NextPipe]_vars

\* A child qualifies when it is a directory and the last four characters of
\* its name are "_MDS".
Qualifies(e) ==
    /\ e.is_dir
    /\ Len(e.name) >= 4
    /\ e.name[Len(e.name) - 3] = "_"
    /\ e.name[Len(e.name) - 2] = "M"
    /\ e.name[Len(e.name) - 1] = "D"
    /\ e.name[Len(e.name)] = "S"

\* C16: once the units are located, they are exactly the children of the
\* root that are directories with a name ending in "_MDS" (a directory
\* Foo_MDX and a regular file Bar_MDS are left out); a root without such a
\* child gives no unit and no error.
C16_LocatesExactlyUnitDirs ==
    run.units >= 0 =>
        /\ run.units = Cardinality({k \in DOMAIN listing : Qualifies(listing[k])})
        /\ run.units = 0 => (tasks = <<>> /\ jpc # "raise" /\ run.failed = "none")
        /\ run.units > 0 =>
             /\ Len(tasks) = run.units
             /\ \A i \in DOMAIN tasks : Qualifies(tasks[i].folder)
             /\ \A k \in DOMAIN listing :
                  Qualifies(listing[k]) =>
                      \E i \in DOMAIN tasks : tasks[i].folder = listing[k]
             /\ \A i \in DOMAIN tasks :
                  \E k \in DOMAIN listing : tasks[i].folder = listing[k]

\* A root holding the directory Foo_MDX, the regular file Bar_MDS and the
\* unit A_MDS has been searched: A_MDS alone was found.
C16_Witness ==
    /\ Len(listing) = 3
    /\ \E k \in DOMAIN listing : listing[k].name = <<"F", "o", "o", "_", "M", "D", "X">>
    /\ \E k \in DOMAIN listing : listing[k].name = <<"B", "a", "r", "_", "M", "D", "S">>
    /\ run.units = 1
    /\ Len(tasks) = 1
    /\ tasks[1].folder.name = <<"A", "_", "M", "D", "S">>

\* ------------------------------------------------------- the fan-in barrier
\* C17: no list, count, percentage, plot or report exists before every
\* dispatched process_folder task has finished, and the results collected
\* are as many as the units dispatched, in every interleaving of the tasks.
C17_FanInBarrier ==
    (agg # None \/ run.plotted \/ run.wrote \/ out.plots # None \/ out.report # None) =>
        /\ run.units > 0
        /\ Len(tasks) = run.units
        /\ \A i \in DOMAIN tasks : tasks[i].st = "done" /\ slots[i] # None
        /\ Len(arrival) = run.units
        /\ agg # None
        /\ agg.total_proteins = run.units
        /\ Len(agg.protein_progress) = run.units
        /\ Len(agg.folder_sizes) = run.units

\* Two units were dispatched, the second finished first, and the report of
\* both was written.
C17_Witness ==
    /\ run.units = 2
    /\ arrival = <<2, 1>>
    /\ agg # None
    /\ run.wrote

\* --------------------------------------------------------- the schedule state
\* C18 as stated: the next fire time changes only when the scheduled job
\* fires, and it is then moved one interval later than it was; the first
\* scheduled firing is no earlier than one interval after the start.
C18_MovedByOneInterval ==
    /\ [][next_run' # next_run =>
            (run.kind = "schedule" /\ next_run' = next_run + IntervalTicks)]_vars
    /\ [](run.kind = "schedule" => now >= IntervalTicks)

\* C18 amended: the next fire time changes only in the step in which a
\* scheduled run of job() returns; the trigger check, a triggered run and
\* the worker tasks leave it as it is.  It is then set one interval after
\* the time of that return, which is at least one interval after the fire
\* time it replaces.  The first scheduled firing is no earlier than one
\* interval after the start.
C18_ScheduleFrame ==
    /\ [][next_run' # next_run =>
            /\ run.kind = "schedule"
            /\ pc = "job_sched"
            /\ jpc = "return"
            /\ next_run' = now + IntervalTicks
            /\ next_run' >= next_run + IntervalTicks]_vars
    /\ [][(pc = "check" \/ jpc = "map" \/ run'.kind = "trigger") => next_run' = next_run]_vars
    /\ [](run.kind = "schedule" => now >= IntervalTicks)
    /\ [](tick.due => now >= IntervalTicks)

\* A scheduled run that took time has returned: the next fire time is one
\* interval from now and more than one interval after the one it replaced.
C18_Witness ==
    /\ run.kind = "schedule"
    /\ pc = "sleep"
    /\ jpc = "idle"
    /\ next_run = now + IntervalTicks
    /\ now > IntervalTicks

====
